---- MODULE Spec2Model ----
(***************************************************************************)
(* strephit/annotation/create_crowdflower_input.py                         *)
(*                                                                         *)
(* prepare_crowdflower_input turns sentence records into CrowdFlower data  *)
(* units, write_input_spreadsheet writes them as a CSV whose header is the *)
(* sorted union of the units' keys plus the gold columns.  main() calls    *)
(* the first and hands its result to the second.                           *)
(*                                                                         *)
(* Text is modelled as it is stored: a unicode string is the sequence of   *)
(* its code points, a byte string the sequence of its bytes.               *)
(***************************************************************************)
EXTENDS Integers, Sequences, FiniteSets, TLC

VARIABLES sentences, frame_data, filter_places, idx, data_units, pc,
          headers, outfile

vars == <<sentences, frame_data, filter_places, idx, data_units, pc,
          headers, outfile>>

---------------------------------------------------------------------------
(* Characters and string literals *)

Lower == <<"a","b","c","d","e","f","g","h","i","j","k","l","m",
           "n","o","p","q","r","s","t","u","v","w","x","y","z">>

Digit == <<"0","1","2","3","4","5","6","7","8","9">>

\* ord(c) for the characters the literals below are written with
Ord(c) ==
  CASE c = " " -> 32
    [] c = "." -> 46
    [] c = "_" -> 95
    [] \E k \in 1..10 : Digit[k] = c -> 47 + (CHOOSE k \in 1..10 : Digit[k] = c)
    [] OTHER -> 96 + (CHOOSE k \in 1..26 : Lower[k] = c)

RECURSIVE Lit(_)
\* the string written as the tuple of its characters
Lit(t) == IF t = <<>> THEN <<>> ELSE <<Ord(Head(t))>> \o Lit(Tail(t))

IsDigit(b) == b >= 48 /\ b <= 57

---------------------------------------------------------------------------
(* Python built-ins the two functions use *)

RECURSIVE DecDigits(_)
\* the decimal digits of n >= 0, no padding
DecDigits(n) == IF n < 10 THEN <<48 + n>> ELSE DecDigits(n \div 10) \o <<48 + (n % 10)>>

\* str(sentence_id) of an integer
Str(n) == IF n < 0 THEN <<45>> \o DecDigits(0 - n) ELSE DecDigits(n)

\* '%02d' % i: decimal, zero-padded to a width of at least two
Fmt02(i) == IF i >= 0 /\ i < 10 THEN <<48>> \o DecDigits(i) ELSE Str(i)

RECURSIVE Replace_First(_, _, _)
\* s.replace(old, new, 1)
Replace_First(s, old, new) ==
  IF s = <<>> THEN <<>>
  ELSE IF Head(s) = old THEN <<new>> \o Tail(s)
  ELSE <<Head(s)>> \o Replace_First(Tail(s), old, new)

RECURSIVE Replace(_, _, _)
\* s.replace(old, new) for one-character old and new
Replace(s, old, new) ==
  IF s = <<>> THEN <<>>
  ELSE <<IF Head(s) = old THEN new ELSE Head(s)>> \o Replace(Tail(s), old, new)

\* the UTF-8 bytes of one code point
Utf8(cp) ==
  IF cp < 128 THEN <<cp>>
  ELSE IF cp < 2048 THEN <<192 + (cp \div 64), 128 + (cp % 64)>>
  ELSE IF cp < 65536
       THEN <<224 + (cp \div 4096), 128 + ((cp \div 64) % 64), 128 + (cp % 64)>>
  ELSE <<240 + (cp \div 262144), 128 + ((cp \div 4096) % 64),
         128 + ((cp \div 64) % 64), 128 + (cp % 64)>>

RECURSIVE Encode(_)
\* v.encode('utf-8')
Encode(v) == IF v = <<>> THEN <<>> ELSE Utf8(Head(v)) \o Encode(Tail(v))

\* a dict or a list as a value of its own (f @@ <<>> is f, worked out once
\* and not at each use)
Built(f) == f @@ <<>>

\* d[k] = v on a dict
Put(d, k, v) == Built([x \in DOMAIN d \cup {k} |-> IF x = k THEN v ELSE d[x]])

RECURSIVE StrLess(_, _)
\* a < b on byte strings: by byte value, a proper prefix first
StrLess(a, b) ==
  IF b = <<>> THEN FALSE
  ELSE IF a = <<>> THEN TRUE
  ELSE IF Head(a) # Head(b) THEN Head(a) < Head(b)
  ELSE StrLess(Tail(a), Tail(b))

\* list(a_set): the elements, each once, in an order of the set's own (here
\* the ascending one; the headers are sorted afterwards)
SetToList(S) ==
  LET before == Built([x \in S |-> Cardinality({y \in S : StrLess(y, x)})])
  IN Built([i \in 1..Cardinality(S) |-> CHOOSE x \in S : before[x] = i - 1])

\* the list left as it is
Sort_None(l) == l

\* a_list.sort() on byte strings
Sort(l) == SortSeq(l, LAMBDA a, b : StrLess(a, b))

---------------------------------------------------------------------------
(* Column names *)

K_id == Lit(<<"i","d">>)
K_sentence == Lit(<<"s","e","n","t","e","n","c","e">>)
K_lu == Lit(<<"l","u">>)
K_frame == Lit(<<"f","r","a","m","e">>)
K_golden == Lit(<<"_","g","o","l","d","e","n">>)
P_fe == Lit(<<"f","e","_">>)
P_chunk == Lit(<<"c","h","u","n","k","_">>)
S_gold == Lit(<<"_","g","o","l","d">>)

\* DBpedia ontology type URI for generic places
PLACE_TYPE == "http://dbpedia.org/ontology/Place"

---------------------------------------------------------------------------
(* Inputs *)

MaxSentences == 2
MaxEntities == 2
MaxCoreFes == 2
MaxExtraFes == 1
ManyEntities == 101

SeqUpTo(S, n) == UNION {[1..k -> S] : k \in 0..n}

Ids == {7, 12}
Texts == {Lit(<<"c","a","f">>) \o <<233>>}
LU_sit == Lit(<<"s","i","t",".","v">>)
LU_go == Lit(<<"g","o",".","v">>)
LUs == {LU_sit, LU_go}
ChunkTexts == {Lit(<<"c","a","t">>), <<26481, 20140>>}
CITY_TYPE == "http://dbpedia.org/ontology/City"
FrameNames == {Lit(<<"p","o","s","t","u","r","e">>)}
FeNames == {Lit(<<"a","g","e","n","t">>), Lit(<<"c","o","_","a","g","_","x">>)}

\* linked entities: a chunk and the list of its ontology types
Entities ==
  [chunk : ChunkTexts, types : {<<>>}]
  \cup [chunk : {<<26481, 20140>>}, types : {<<CITY_TYPE, PLACE_TYPE>>}]

\* a sentence record; 'linked_entities' is optional
Sentences ==
  [id : Ids, text : Texts, lu : LUs]
  \cup [id : Ids, text : Texts, lu : LUs,
        linked_entities : SeqUpTo(Entities, MaxEntities)]

\* a sentence of many linked entities, none of them a place
LongSentences ==
  [id : {7}, text : Texts, lu : {LU_go},
   linked_entities :
     {[k \in 1..ManyEntities |-> [chunk |-> Lit(<<"c","a","t">>), types |-> <<>>]]}]

\* the sentence files: up to MaxSentences short sentences, or a long one
SentenceFiles ==
  SeqUpTo(Sentences, MaxSentences) \cup {<<s>> : s \in LongSentences}

Fes == [fe : FeNames]

Frames == [frame : FrameNames,
           core_fes : SeqUpTo(Fes, MaxCoreFes),
           extra_fes : SeqUpTo(Fes, MaxExtraFes)]

\* the empty JSON object
EmptyDict == [k \in {} |-> <<>>]

\* the frame of go.v
MotionFrame ==
  [frame |-> Lit(<<"m","o","t","i","o","n">>),
   core_fes |-> <<[fe |-> Lit(<<"t","h","e","m","e">>)]>>,
   extra_fes |-> <<>>]

\* frame data documents, dicts from LU to frame: MotionFrame for go.v and,
\* for sit.v, no entry, {} or any of Frames
FrameData ==
  {[lu \in {LU_go} |-> MotionFrame]}
  \cup {[lu \in LUs |-> IF lu = LU_go THEN MotionFrame ELSE frame] :
          frame \in Frames \cup {EmptyDict}}

---------------------------------------------------------------------------
(* prepare_crowdflower_input *)

\* the data unit minted upon the sentence data
MintDataUnit(s) ==
  Put(Put(Put(EmptyDict, K_id, Str(s.id)), K_sentence, s.text), K_lu, s.lu)

\* not sentence.get('linked_entities')
NoLinkedEntities(s) ==
  IF "linked_entities" \in DOMAIN s THEN s.linked_entities = <<>> ELSE TRUE

\* entity['types'][0] == PLACE_TYPE
IsPlace_FirstType(entity) ==
  IF entity.types = <<>> THEN FALSE ELSE entity.types[1] = PLACE_TYPE

\* PLACE_TYPE in entity['types']
IsPlace(entity) == \E k \in 1..Len(entity.types) : entity.types[k] = PLACE_TYPE

\* the chunks of the entities that are not typed as places, in order
FilteredChunks(linked_entities) ==
  LET kept(entity) == ~IsPlace(entity)
      entities == SelectSeq(linked_entities, kept)
  IN Built([k \in 1..Len(entities) |-> entities[k].chunk])

\* [entity['chunk'] for entity in linked_entities]
AllChunks(linked_entities) ==
  Built([k \in 1..Len(linked_entities) |-> linked_entities[k].chunk])

\* the chunk list with the filter left out
Chunks_Unfiltered(linked_entities, filter) == AllChunks(linked_entities)

\* the chunk list of a sentence
Chunks(linked_entities, filter) ==
  IF filter THEN FilteredChunks(linked_entities) ELSE AllChunks(linked_entities)

\* not frame_data.get(lu)
NoFrame(fd, lu) == IF lu \in DOMAIN fd THEN DOMAIN fd[lu] = {} ELSE TRUE

\* for n, k in enumerate(ks): d[k] = xs[n]
\* (the last write to a key is the one that stays)
PutEach(d, ks, xs) ==
  LET last(k) == CHOOSE n \in 1..Len(ks) :
                   ks[n] = k /\ \A m \in (n + 1)..Len(ks) : ks[m] # k
  IN Built([k \in DOMAIN d \cup {ks[n] : n \in 1..Len(ks)} |->
              IF \E n \in 1..Len(ks) : ks[n] = k THEN xs[last(k)] ELSE d[k]])

\* for i, x in enumerate(xs, start): d[prefix + '%02d' % i] = x
PutNumbered(d, prefix, xs, start) ==
  PutEach(d, Built([n \in 1..Len(xs) |-> prefix \o Fmt02(start + n - 1)]), xs)

\* for i, fe in enumerate(fes): data_unit['fe_%02d' % i] = fe['fe'].replace('_', ' ')
PutFes(d, fes) ==
  PutNumbered(d, P_fe, Built([n \in 1..Len(fes) |-> Replace(fes[n].fe, 95, 32)]), 0)

\* for j, chunk in enumerate(chunks, 1)
PutChunks_FromOne(d, chunks) == PutNumbered(d, P_chunk, chunks, 1)

\* for j, chunk in enumerate(chunks): data_unit['chunk_%02d' % j] = chunk
PutChunks(d, chunks) == PutNumbered(d, P_chunk, chunks, 0)

\* {k: v.encode('utf-8') for k, v in data_unit.items()}
EncodeValues(d) == Built([k \in DOMAIN d |-> Encode(d[k])])

\* the data unit of a sentence that is not skipped
DataUnit(s, fd, filter) ==
  LET frame == fd[s.lu]
      fes == frame.core_fes \o frame.extra_fes
      d1 == Put(MintDataUnit(s), K_frame, frame.frame)
      d2 == PutFes(d1, fes)
      d3 == PutChunks(d2, Chunks(s.linked_entities, filter))
  IN EncodeValues(d3)

\* data_units.insert(0, unit)
AppendUnit_First(units, unit) == <<unit>> \o units

\* data_units.append(unit)
AppendUnit(units, unit) == Append(units, unit)

\* break: out of the loop
Continue_Break(i) == Len(sentences) + 1

\* continue: on to the next sentence
Continue(i) == i + 1

InLoop == pc = "prepare" /\ idx <= Len(sentences)

SkipNoLinkedEntities ==
  /\ InLoop
  /\ NoLinkedEntities(sentences[idx])
  /\ idx' = Continue(idx)
  /\ UNCHANGED <<sentences, frame_data, filter_places, data_units, pc,
                 headers, outfile>>

SkipNoChunks ==
  /\ InLoop
  /\ ~NoLinkedEntities(sentences[idx])
  /\ Chunks(sentences[idx].linked_entities, filter_places) = <<>>
  /\ idx' = Continue(idx)
  /\ UNCHANGED <<sentences, frame_data, filter_places, data_units, pc,
                 headers, outfile>>

SkipNoFrame ==
  /\ InLoop
  /\ ~NoLinkedEntities(sentences[idx])
  /\ Chunks(sentences[idx].linked_entities, filter_places) # <<>>
  /\ NoFrame(frame_data, sentences[idx].lu)
  /\ idx' = Continue(idx)
  /\ UNCHANGED <<sentences, frame_data, filter_places, data_units, pc,
                 headers, outfile>>

EmitDataUnit ==
  /\ InLoop
  /\ ~NoLinkedEntities(sentences[idx])
  /\ Chunks(sentences[idx].linked_entities, filter_places) # <<>>
  /\ ~NoFrame(frame_data, sentences[idx].lu)
  /\ data_units' =
       AppendUnit(data_units, DataUnit(sentences[idx], frame_data, filter_places))
  /\ idx' = idx + 1
  /\ UNCHANGED <<sentences, frame_data, filter_places, pc, headers, outfile>>

\* return data_units, which main() passes to write_input_spreadsheet
ReturnDataUnits ==
  /\ pc = "prepare"
  /\ idx > Len(sentences)
  /\ pc' = "write"
  /\ UNCHANGED <<sentences, frame_data, filter_places, idx, data_units,
                 headers, outfile>>

---------------------------------------------------------------------------
(* write_input_spreadsheet *)

\* set(data_units[0].keys())
MergedKeys_First(units) == IF units = <<>> THEN {} ELSE DOMAIN units[1]

\* set([k for d in data_units for k in d.keys()])
MergedKeys(units) == UNION {DOMAIN units[n] : n \in 1..Len(units)}

\* re.search('chunk_[0-9]$', header)
IsChunkColumn_OneDigit(header) ==
  IF Len(header) >= 7
  THEN SubSeq(header, Len(header) - 6, Len(header) - 1) = P_chunk
       /\ IsDigit(header[Len(header)])
  ELSE FALSE

\* re.search('chunk_[0-9]{2}$', header): '$' is the end of the string or the
\* newline that ends it
IsChunkColumn(header) ==
  \E e \in {Len(header), Len(header) - 1} :
    /\ e >= 8
    /\ e = Len(header) \/ header[Len(header)] = 10
    /\ SubSeq(header, e - 7, e - 2) = P_chunk
    /\ IsDigit(header[e - 1])
    /\ IsDigit(header[e])

\* a gold column for each numbered header, fe_NN as well
GoldColumns_Numbered(hs) ==
  LET keep(h) ==
        IF Len(h) >= 2 THEN IsDigit(h[Len(h) - 1]) /\ IsDigit(h[Len(h)]) ELSE FALSE
      numbered == SelectSeq(hs, keep)
  IN [k \in 1..Len(numbered) |-> numbered[k] \o S_gold]

\* gold_columns: header + '_gold' for each chunk header, in list order
GoldColumns(hs) ==
  LET keep(h) == IsChunkColumn(h)
      gold(h) == h \o S_gold
      chunk_headers == SelectSeq(hs, keep)
  IN Built([k \in 1..Len(chunk_headers) |-> gold(chunk_headers[k])])

\* the CSV header list
Headers(units) ==
  LET hs == SetToList(MergedKeys(units) \cup {K_golden})
  IN Sort(hs \o GoldColumns(hs))

\* DictWriter's row of a dict: the value of each field, '' where it has none
Row(d, fieldnames) ==
  Built([c \in 1..Len(fieldnames) |->
           IF fieldnames[c] \in DOMAIN d THEN d[fieldnames[c]] ELSE <<>>])

\* writer.writeheader(); writer.writerows(data_units)
Written(units, fieldnames) ==
  <<fieldnames>> \o [n \in 1..Len(units) |-> Row(units[n], fieldnames)]

WriteInputSpreadsheet ==
  /\ pc = "write"
  /\ headers' = Headers(data_units)
  /\ outfile' = Written(data_units, headers')
  /\ pc' = "done"
  /\ UNCHANGED <<sentences, frame_data, filter_places, idx, data_units>>

---------------------------------------------------------------------------

Init ==
  /\ sentences \in SentenceFiles
  /\ frame_data \in FrameData
  /\ filter_places \in BOOLEAN
  /\ idx = 1
  /\ data_units = <<>>
  /\ pc = "prepare"
  /\ headers = <<>>
  /\ outfile = <<>>

Next ==
  \/ SkipNoLinkedEntities
  \/ SkipNoChunks
  \/ SkipNoFrame
  \/ EmitDataUnit
  \/ ReturnDataUnits
  \/ WriteInputSpreadsheet

Spec == Init /\ [][Next]_vars

---------------------------------------------------------------------------
(* Vocabulary of the properties, stated on the inputs *)

\* the sentence the loop of prepare_crowdflower_input is at
AtSentence == pc = "prepare" /\ idx <= Len(sentences)

\* the step appends one data unit
Emits == Len(data_units') = Len(data_units) + 1

\* the linked entities of a sentence, none when the key is absent
LinkedOf(s) == IF "linked_entities" \in DOMAIN s THEN s.linked_entities ELSE <<>>

TypedAsPlace(e) == PLACE_TYPE \in {e.types[t] : t \in 1..Len(e.types)}

\* the positions in linked_entities whose chunk is retained
RetainedAt(s, filter) ==
  {p \in 1..Len(LinkedOf(s)) : ~(filter /\ TypedAsPlace(LinkedOf(s)[p]))}

\* the j-th (from 0) retained position
NthRetained(s, filter, j) ==
  CHOOSE p \in RetainedAt(s, filter) :
    Cardinality({q \in RetainedAt(s, filter) : q < p}) = j

HasFrameEntry(s) == s.lu \in DOMAIN frame_data

HasFrame(s) == IF HasFrameEntry(s) THEN DOMAIN frame_data[s.lu] # {} ELSE FALSE

\* none of the three skip conditions applies to the sentence
Kept(s) ==
  /\ Len(LinkedOf(s)) >= 1
  /\ RetainedAt(s, filter_places) # {}
  /\ HasFrame(s)

\* the positions of the kept sentences among the first n
KeptBefore(n) == {k \in 1..(n - 1) : Kept(sentences[k])}

\* the sentence the j-th (from 1) data unit stands for
OriginOf(j) ==
  CHOOSE k \in KeptBefore(idx) :
    Cardinality({q \in KeptBefore(idx) : q < k}) = j - 1

\* the column name made of a prefix and an index of two digits, of three
\* from 100 on
Col(prefix, i) ==
  prefix \o (IF i < 100 THEN <<>> ELSE <<48 + (i \div 100)>>)
         \o <<48 + ((i \div 10) % 10), 48 + (i % 10)>>

HasPrefix(k, prefix) ==
  IF Len(k) >= Len(prefix) THEN SubSeq(k, 1, Len(prefix)) = prefix ELSE FALSE

\* chunk_ followed by exactly two digits
IsChunkNN(k) ==
  IF Len(k) = 8
  THEN SubSeq(k, 1, 6) = P_chunk /\ IsDigit(k[7]) /\ IsDigit(k[8])
  ELSE FALSE

\* the name with each underscore turned into a space
Spaced(name) == [k \in 1..Len(name) |-> IF name[k] = 95 THEN 32 ELSE name[k]]

\* plain ascending string order: the first differing byte decides, a proper
\* prefix comes first
Precedes(a, b) ==
  \E p \in 1..Len(b) :
    /\ p <= Len(a) + 1
    /\ \A q \in 1..(p - 1) : a[q] = b[q]
    /\ IF p = Len(a) + 1 THEN TRUE ELSE a[p] < b[p]

\* where a column stands in the header list (0: nowhere)
PosOf(k) ==
  IF \E c \in 1..Len(headers) : headers[c] = k
  THEN CHOOSE c \in 1..Len(headers) : headers[c] = k
  ELSE 0

UnitKeys == UNION {DOMAIN data_units[n] : n \in 1..Len(data_units)}

LastUnit == data_units'[Len(data_units')]

---------------------------------------------------------------------------
(* Properties *)

\* C1: a data unit is emitted for a sentence only if the sentence has at
\* least one linked entity, at least one chunk survives the optional place
\* filtering, and frame_data has an entry for the sentence's lexical unit.
C1_EmittedOnlyIf ==
  [][(AtSentence /\ data_units' # data_units)
       => LET s == sentences[idx]
          IN /\ Len(LinkedOf(s)) >= 1
             /\ RetainedAt(s, filter_places) # {}
             /\ HasFrameEntry(s)]_vars

\* both kinds of sentence were met: one emitted, one skipped
C1_Witness ==
  /\ pc = "write"
  /\ Len(sentences) = 2
  /\ Len(data_units) = 1
  /\ \E k \in 1..2 : "linked_entities" \notin DOMAIN sentences[k]

\* a sentence with linked entities, all of them typed as places
AllPlaces(s) ==
  /\ Len(LinkedOf(s)) >= 1
  /\ \A p \in 1..Len(LinkedOf(s)) : TypedAsPlace(LinkedOf(s)[p])

\* the unit holds every chunk of the sentence, in order
HoldsAllChunks(u, s) ==
  \A p \in 1..Len(LinkedOf(s)) :
    IF Col(P_chunk, p - 1) \in DOMAIN u
    THEN u[Col(P_chunk, p - 1)] = Encode(LinkedOf(s)[p].chunk)
    ELSE FALSE

\* C2 as stated: a sentence whose linked entities are all places gives no
\* unit when filter_places is true, and a unit with all its chunks when
\* filter_places is false.
C2_AsStated ==
  [][(AtSentence /\ AllPlaces(sentences[idx]))
       => IF filter_places
          THEN data_units' = data_units
          ELSE Emits /\ HoldsAllChunks(LastUnit, sentences[idx])]_vars

\* C2 amended: ... when filter_places is false, the sentence gives a unit
\* with all its chunks if frame_data has a non-empty entry for its lexical
\* unit, and no unit otherwise.
C2_AllPlaces ==
  [][(AtSentence /\ AllPlaces(sentences[idx]))
       => IF filter_places \/ ~HasFrame(sentences[idx])
          THEN data_units' = data_units
          ELSE Emits /\ HoldsAllChunks(LastUnit, sentences[idx])]_vars

\* an all-places sentence of two entities went through unfiltered
C2_Witness ==
  /\ ~filter_places
  /\ idx = 2
  /\ AllPlaces(sentences[1])
  /\ Len(LinkedOf(sentences[1])) = 2
  /\ Len(data_units) = 1

\* C3: in an emitted unit fe_i, i < c, is the i-th core element and
\* fe_(c+j), j < e, the j-th extra element, underscores turned into spaces,
\* and there are exactly c + e fe columns.
C3_FeColumns ==
  [][(AtSentence /\ Emits)
       => LET frame == frame_data[sentences[idx].lu]
              c == Len(frame.core_fes)
              e == Len(frame.extra_fes)
              u == LastUnit
          IN /\ \A i \in 0..(c - 1) :
                  IF Col(P_fe, i) \in DOMAIN u
                  THEN u[Col(P_fe, i)] = Encode(Spaced(frame.core_fes[i + 1].fe))
                  ELSE FALSE
             /\ \A j \in 0..(e - 1) :
                  IF Col(P_fe, c + j) \in DOMAIN u
                  THEN u[Col(P_fe, c + j)] = Encode(Spaced(frame.extra_fes[j + 1].fe))
                  ELSE FALSE
             /\ Cardinality({k \in DOMAIN u : HasPrefix(k, P_fe)}) = c + e]_vars

\* a unit of a frame with two different core elements and an extra one
C3_Witness ==
  /\ Len(data_units) = 1
  /\ idx = 2
  /\ LET frame == frame_data[sentences[1].lu]
     IN /\ Len(frame.core_fes) = 2
        /\ frame.core_fes[1] # frame.core_fes[2]
        /\ Len(frame.extra_fes) = 1
        /\ \E k \in 1..Len(frame.extra_fes[1].fe) : frame.extra_fes[1].fe[k] = 95

C5_Rows ==
  pc = "done"
    => /\ Len(outfile) = Len(data_units) + 1
       /\ outfile[1] = headers
       /\ \A k \in UnitKeys : PosOf(k) # 0
       /\ \A n \in 1..Len(data_units) :
            /\ Len(outfile[n + 1]) = Len(headers)
            /\ \A c \in 1..Len(headers) :
                 outfile[n + 1][c] =
                   IF headers[c] \in DOMAIN data_units[n]
                   THEN data_units[n][headers[c]]
                   ELSE <<>>

\* two units of differing key sets were written
C5_Witness ==
  /\ pc = "done"
  /\ Len(data_units) = 2
  /\ DOMAIN data_units[1] \ DOMAIN data_units[2] # {}
  /\ DOMAIN data_units[2] \ DOMAIN data_units[1] # {}

\* C6: the data units stand, one to one and in order, for the kept
\* sentences met so far; each has the id, sentence and lu of its sentence;
\* whether a sentence is kept depends on that sentence alone.
C6_Order ==
  /\ Len(data_units) = Cardinality(KeptBefore(idx))
  /\ \A j \in 1..Len(data_units) :
       LET s == sentences[OriginOf(j)]
           u == data_units[j]
       IN IF {K_id, K_sentence, K_lu} \subseteq DOMAIN u
          THEN /\ u[K_id] = Encode(Str(s.id))
               /\ u[K_sentence] = Encode(s.text)
               /\ u[K_lu] = Encode(s.lu)
          ELSE FALSE

\* two units of different sentences
C6_Witness ==
  /\ pc = "write"
  /\ Len(data_units) = 2
  /\ sentences[1].id # sentences[2].id
  /\ sentences[1].lu # sentences[2].lu

\* C7: a sentence with a failure condition is skipped and the loop goes on
\* to the next sentence; the function returns, with the units of all the
\* other sentences.
C7_SkipAndGoOn ==
  [][/\ (AtSentence /\ ~Kept(sentences[idx]))
          => /\ idx' = idx + 1
             /\ data_units' = data_units
             /\ pc' = "prepare"
     /\ (pc = "prepare" /\ pc' # "prepare")
          => /\ pc' = "write"
             /\ data_units' = data_units
             /\ Len(data_units) = Cardinality(KeptBefore(Len(sentences) + 1))]_vars

\* a skipped sentence was followed by an emitted one
C7_Witness ==
  /\ pc = "write"
  /\ Len(sentences) = 2
  /\ ~Kept(sentences[1])
  /\ Len(LinkedOf(sentences[1])) >= 1
  /\ Len(data_units) = 1

\* the unit keys chunk_NN whose chunk_NN_gold stands right after chunk_NN
\* and before the chunk column that follows
GoldNextToChunk ==
  \A k \in UnitKeys :
    IsChunkNN(k)
      => /\ PosOf(k \o S_gold) = PosOf(k) + 1
         /\ \A h \in UnitKeys :
              (HasPrefix(h, P_chunk) /\ Precedes(k, h))
                => PosOf(k \o S_gold) < PosOf(h)

\* the header row is the header list, ascending, _golden before the chunk
\* columns and these before the fe columns
AscendingHeaders ==
  /\ outfile[1] = headers
  /\ \A c \in 1..(Len(headers) - 1) : Precedes(headers[c], headers[c + 1])
  /\ \A k \in UnitKeys :
       /\ HasPrefix(k, P_chunk) \/ HasPrefix(k, P_fe) => PosOf(K_golden) < PosOf(k)
       /\ HasPrefix(k, P_chunk)
            => \A h \in UnitKeys : HasPrefix(h, P_fe) => PosOf(k) < PosOf(h)

\* C8 as stated: the header row is in plain ascending string order, so that
\* _golden is before chunk_00 before fe_00 and each chunk_NN_gold right after
\* chunk_NN and before chunk_(NN+1).
C8_AsStated == pc = "done" => AscendingHeaders /\ GoldNextToChunk

\* C8 amended: ... each chunk_NN_gold is right after chunk_NN and before
\* chunk_(NN+1) if no unit has more than 100 chunks.
C8_HeaderOrder ==
  pc = "done"
    => /\ AscendingHeaders
       /\ (\A k \in UnitKeys : HasPrefix(k, P_chunk) => IsChunkNN(k))
            => GoldNextToChunk

\* a header with two chunk columns and fe columns
C8_Witness ==
  /\ pc = "done"
  /\ \A k \in UnitKeys : HasPrefix(k, P_chunk) => IsChunkNN(k)
  /\ PosOf(Col(P_chunk, 1)) # 0
  /\ PosOf(Col(P_fe, 1)) # 0

C10_NoDuplicateHeader ==
  pc = "done"
    => /\ \A a, b \in 1..Len(headers) : a # b => headers[a] # headers[b]
       /\ {headers[c] : c \in 1..Len(headers)}
            = UnitKeys \cup {K_golden}
                \cup {k \o S_gold : k \in {h \in UnitKeys : IsChunkNN(h)}}
       /\ \A k \in UnitKeys : ~IsChunkNN(k) => PosOf(k \o S_gold) = 0

\* a header of units with fe and chunk columns
C10_Witness ==
  /\ pc = "done"
  /\ Len(data_units) = 2
  /\ PosOf(Col(P_fe, 2)) # 0
  /\ PosOf(Col(P_chunk, 1) \o S_gold) # 0

====
